---------------------------- MODULE Spec2Model ----------------------------
(***************************************************************************)
(* A model of src/resolve.rs: the resolution of one package of the cargo   *)
(* metadata into a CrateDerivation.                                        *)
(*                                                                         *)
(*   - ResolvedSource::new and its helpers git_or_local_directory,         *)
(*     fallback_to_local_directory and relative_directory,                 *)
(*   - ResolvedDependencies::new and filtered_dependencies,                *)
(*   - CrateDerivation::resolve, which calls them in the source's order.   *)
(*                                                                         *)
(* Strings are sequences of tokens: a provenance string is                 *)
(* <<"git+", "https://example.com/repo", "?", "rev", "=", "abc123">>, a    *)
(* crate name is <<"foo", "-", "bar">>.  The operations on strings         *)
(* (starts_with, Url::parse, query_pairs, replace) work on the tokens.     *)
(* Paths are an absolute flag and a sequence of components.                *)
(***************************************************************************)
EXTENDS Naturals, Sequences, FiniteSets, TLC

VARIABLES
    config,     \* GenerateConfig: [output |-> Path]
    package,    \* the Package being resolved
    metadata,   \* IndexedMetadata: [nodes_by_id, pkgs_by_id]
    pc,         \* "start" before the call, "done" after it returned
    call,       \* which function of resolve.rs the behaviour calls
    result,     \* the value the call returned
    stderr      \* the warnings written by eprintln!, in order

vars == <<config, package, metadata, pc, call, result, stderr>>

----------------------------------------------------------------------------
(* Option and Result values.                                               *)

None == <<>>

Some(x) == <<x>>

Ok(v) == [kind |-> "Ok", val |-> v]

\* An error (failure::Error) with its message.
Err(m) == [kind |-> "Err", err |-> [msg |-> m]]

\* An error whose message names a package identity.
ErrAbout(m, id) == [kind |-> "Err", err |-> [msg |-> m, pkg |-> id]]

\* A panic (a failed expect): the call does not return.
Panic(m) == [kind |-> "Panic", err |-> [msg |-> m]]

NoResult == [kind |-> "none"]

IsOk(r) == r.kind = "Ok"

Range(s) == {s[i] : i \in 1..Len(s)}

Front(s) == SubSeq(s, 1, Len(s) - 1)

Last(s) == s[Len(s)]

\* All sequences over S of length at most n.
SeqsUpTo(S, n) == UNION {[1..k -> S] : k \in 0..n}

----------------------------------------------------------------------------
(* Bounds of the model.                                                    *)

\* Depth of the directory tree of the modelled file system.
MaxDepth == 3

\* Number of name=value pairs in the query of a provenance URL.
MaxPairs == 2

\* Number of declared requirements of the package (package.dependencies).
MaxDeps == 3

\* Number of edges of the package's node of the dependency graph (node.deps).
MaxEdges == 3

----------------------------------------------------------------------------
(* The file system and std::path.                                          *)

DirNames == {"a", "b"}

\* The directories that exist: the tree of DirNames to depth MaxDepth below
\* the root.  No symbolic links.
Exists(comps) ==
    /\ Len(comps) <= MaxDepth
    /\ \A i \in 1..Len(comps) : comps[i] \in DirNames

\* The current working directory of the process.
Cwd == <<"a">>

MkPath(abs, comps) == [abs |-> abs, comps |-> comps]

\* Path::parent: None for the root and for the empty path.
parent(p) ==
    IF p.comps = <<>> THEN None ELSE Some(MkPath(p.abs, Front(p.comps)))

\* Path::join: an absolute right-hand side replaces the left-hand side.
join(p, q) ==
    IF q.abs THEN q ELSE MkPath(p.abs, p.comps \o q.comps)

\* Path::components: "." is dropped everywhere but at the start of a
\* relative path.
RECURSIVE DropCurDir(_)
DropCurDir(cs) ==
    IF cs = <<>> THEN <<>>
    ELSE IF Head(cs) = "." THEN DropCurDir(Tail(cs))
    ELSE <<Head(cs)>> \o DropCurDir(Tail(cs))

components(p) ==
    IF p.comps = <<>> THEN <<>>
    ELSE IF ~p.abs /\ Head(p.comps) = "."
         THEN <<".">> \o DropCurDir(Tail(p.comps))
         ELSE DropCurDir(p.comps)

\* PartialEq of Path compares the components.
PathEq(p, q) == p.abs = q.abs /\ components(p) = components(q)

\* Path::starts_with: whole components.
starts_with_path(p, q) ==
    LET cp == components(p)
        cq == components(q)
    IN  /\ p.abs = q.abs
        /\ Len(cq) <= Len(cp)
        /\ SubSeq(cp, 1, Len(cq)) = cq

\* The walk of fs::canonicalize from the directory `at`: None as soon as a
\* directory on the way does not exist.
RECURSIVE Walk(_, _)
Walk(at, cs) ==
    IF ~Exists(at) THEN None
    ELSE IF cs = <<>> THEN Some(at)
    ELSE IF Head(cs) = "." THEN Walk(at, Tail(cs))
    ELSE IF Head(cs) = ".."
         THEN Walk(IF at = <<>> THEN <<>> ELSE Front(at), Tail(cs))
         ELSE Walk(at \o <<Head(cs)>>, Tail(cs))

canonicalize(p) ==
    LET w == Walk(IF p.abs THEN <<>> ELSE Cwd, p.comps)
    IN  IF w = None THEN Err("io") ELSE Ok(MkPath(TRUE, w[1]))

\* pathdiff::diff_paths(path, base), as called at line 277.
RECURSIVE diff_loop(_, _, _)
diff_loop(ita, itb, comps) ==
    IF ita = <<>> /\ itb = <<>> THEN Some(comps)
    ELSE IF itb = <<>> THEN Some(comps \o ita)
    ELSE IF ita = <<>> THEN diff_loop(ita, Tail(itb), comps \o <<"..">>)
    ELSE IF comps = <<>> /\ Head(ita) = Head(itb)
         THEN diff_loop(Tail(ita), Tail(itb), comps)
    ELSE IF Head(itb) = "." THEN diff_loop(Tail(ita), Tail(itb), comps \o <<Head(ita)>>)
    ELSE IF Head(itb) = ".." THEN None
    ELSE Some(comps \o [i \in 1..Len(itb) |-> ".."] \o ita)

diff_paths(path, base) ==
    IF path.abs # base.abs
    THEN IF path.abs THEN Some(path) ELSE None
    ELSE LET d == diff_loop(components(path), components(base), <<>>)
         IN  IF d = None THEN None ELSE Some(MkPath(FALSE, d[1]))

----------------------------------------------------------------------------
(* ResolvedSource::relative_directory.                                     *)

\* Lines 266-272, with the error of a failed canonicalize dropped and the
\* directory used as given.
canonicalize_output_unchecked(dir) ==
    LET c == canonicalize(dir)
    IN  IF IsOk(c) THEN c ELSE Ok(MkPath(TRUE, dir.comps))

\* Lines 266-272: the output file's directory, canonicalized.
canonicalize_output(dir) ==
    LET c == canonicalize(dir)
    IN  IF IsOk(c) THEN c ELSE Err("could not canonicalize output file directory")

\* Lines 279-286 without the rewrite of a bare "..".
explicit_relative_no_rewrite(path) ==
    IF starts_with_path(path, MkPath(FALSE, <<"..">>))
    THEN path
    ELSE join(MkPath(FALSE, <<".">>), path)

\* Lines 279-286: the form the relative path is returned in.
explicit_relative(path) ==
    IF PathEq(path, MkPath(FALSE, <<"..">>))
    THEN join(path, MkPath(FALSE, <<".">>))
    ELSE IF starts_with_path(path, MkPath(FALSE, <<"..">>))
    THEN path
    ELSE join(MkPath(FALSE, <<".">>), path)

relative_directory(cfg, package_path) ==
    LET par == parent(cfg.output)
    IN  IF par = None THEN Err("could not get parent of output file")
        ELSE
        LET dir0 == par[1]
            dir1 == IF ~dir0.abs THEN join(MkPath(FALSE, <<".">>), dir0) ELSE dir0
            can  == canonicalize_output(dir1)
        IN  IF ~IsOk(can) THEN can
            ELSE
            LET output_build_file_directory == can.val
            IN  IF PathEq(package_path, output_build_file_directory)
                THEN Ok(MkPath(FALSE, <<".", ".">>))
                ELSE
                LET d == diff_paths(package_path, output_build_file_directory)
                    path == IF d = None THEN package_path ELSE d[1]
                IN  Ok(explicit_relative(path))

----------------------------------------------------------------------------
(* Provenance strings and the url crate.                                   *)

GIT_SOURCE_PREFIX == <<"git+">>

\* cargo_metadata's Source::is_crates_io compares the whole string.
CratesIoRepr == <<"registry+", "https://github.com/rust-lang/crates.io-index">>

is_crates_io(source) == source = CratesIoRepr

\* str::starts_with.
starts_with(s, prefix) ==
    /\ Len(prefix) <= Len(s)
    /\ SubSeq(s, 1, Len(prefix)) = prefix

\* The tokens that begin an absolute URL (a scheme and an authority).
AbsoluteUrls ==
    {"https://example.com/repo", "https://my.registry/index",
     "https://github.com/rust-lang/crates.io-index"}

\* Index of the first occurrence of token t in s, 0 when there is none.
RECURSIVE IndexFrom(_, _, _)
IndexFrom(s, t, i) ==
    IF i > Len(s) THEN 0
    ELSE IF s[i] = t THEN i
    ELSE IndexFrom(s, t, i + 1)

IndexOf(s, t) == IndexFrom(s, t, 1)

\* Url::parse: a relative reference has no base to resolve against and is an
\* error; the fragment starts at the first "#", the query at the first "?"
\* before it.
Url_parse(s) ==
    IF s = <<>> \/ Head(s) \notin AbsoluteUrls THEN Err("url::ParseError")
    ELSE
    LET h == IndexOf(s, "#")
        beforeFragment == IF h = 0 THEN s ELSE SubSeq(s, 1, h - 1)
        fragment == IF h = 0 THEN None ELSE Some(SubSeq(s, h + 1, Len(s)))
        q == IndexOf(beforeFragment, "?")
        path == IF q = 0 THEN beforeFragment ELSE SubSeq(beforeFragment, 1, q - 1)
        query == IF q = 0 THEN None
                 ELSE Some(SubSeq(beforeFragment, q + 1, Len(beforeFragment)))
    IN  Ok([path |-> path, query |-> query, fragment |-> fragment])

\* Url::set_query, line 214.
set_query(url, query) == [url EXCEPT !.query = query]

\* Url::set_fragment(None) that leaves the fragment in place.
set_fragment_noop(url, fragment) == url

\* Url::set_fragment, line 215.
set_fragment(url, fragment) == [url EXCEPT !.fragment = fragment]

\* The serialization of a Url (Url::as_str).
Url_as_str(url) ==
    url.path
    \o (IF url.query = None THEN <<>> ELSE <<"?">> \o url.query[1])
    \o (IF url.fragment = None THEN <<>> ELSE <<"#">> \o url.fragment[1])

\* form_urlencoded decoding of one token: "+" is a space, %XX a byte.
decode_token(t) ==
    IF t = "a+b" THEN "a b"
    ELSE IF t = "r%65v" THEN "rev"
    ELSE t

decode(s) == [i \in 1..Len(s) |-> decode_token(s[i])]

\* The segments of s between the separators sep.
RECURSIVE split(_, _)
split(s, sep) ==
    LET i == IndexOf(s, sep)
    IN  IF i = 0 THEN <<s>>
        ELSE <<SubSeq(s, 1, i - 1)>> \o split(SubSeq(s, i + 1, Len(s)), sep)

\* One name=value segment; the value is empty when there is no "=".
parse_pair(seg) ==
    LET e == IndexOf(seg, "=")
    IN  IF e = 0 THEN [name |-> decode(seg), value |-> <<>>]
        ELSE [name  |-> decode(SubSeq(seg, 1, e - 1)),
              value |-> decode(SubSeq(seg, e + 1, Len(seg)))]

RECURSIVE parse_segments(_)
parse_segments(segs) ==
    IF segs = <<>> THEN <<>>
    ELSE IF Head(segs) = <<>> THEN parse_segments(Tail(segs))
    ELSE <<parse_pair(Head(segs))>> \o parse_segments(Tail(segs))

\* Url::query_pairs: the items the iterator yields, in order; empty segments
\* are skipped.
query_pairs(url) ==
    parse_segments(split(IF url.query = None THEN <<>> ELSE url.query[1], "&"))

RECURSIVE IndexOfName(_, _, _)
IndexOfName(it, name, i) ==
    IF i > Len(it) THEN 0
    ELSE IF it[i].name = name THEN i
    ELSE IndexOfName(it, name, i + 1)

\* Iterator::find(&mut self): the item found, and the iterator advanced past
\* it (exhausted when nothing is found).
find(it, name) ==
    LET i == IndexOfName(it, name, 1)
    IN  [item |-> IF i = 0 THEN None ELSE Some(it[i]),
         rest |-> IF i = 0 THEN <<>> ELSE SubSeq(it, i + 1, Len(it))]

----------------------------------------------------------------------------
(* ResolvedSource.                                                         *)

\* What a function returns and what it wrote to stderr.
Returned(ret, warnings) == [ret |-> ret, warnings |-> warnings]

source_or_na(pkg) == IF pkg.source = None THEN <<"N/A">> ELSE pkg.source[1]

\* Lines 223-242.
fallback_to_local_directory(cfg, pkg, package_path, warning) ==
    LET path == relative_directory(cfg, package_path)
    IN  IF ~IsOk(path) THEN Returned(path, <<>>)
        ELSE Returned(
                Ok([tag |-> "LocalDirectory", path |-> path.val]),
                <<[warning |-> warning, id |-> pkg.id,
                   source |-> source_or_na(pkg), path |-> path.val]>>)

\* Lines 183-221.
git_or_local_directory(cfg, pkg, package_path, source) ==
    LET source_string == source
    IN  IF ~starts_with(source_string, GIT_SOURCE_PREFIX)
        THEN fallback_to_local_directory(cfg, pkg, package_path,
                                         "No 'git+' prefix found.")
        ELSE
        LET parsed == Url_parse(SubSeq(source_string, Len(GIT_SOURCE_PREFIX) + 1,
                                       Len(source_string)))
        IN  IF ~IsOk(parsed) THEN Returned(parsed, <<>>)
            ELSE
            LET url == parsed.val
                f1 == find(query_pairs(url), <<"branch">>)
                branch == IF f1.item = None THEN None ELSE Some(f1.item[1].value)
                f2 == find(f1.rest, <<"rev">>)
            IN  IF f2.item = None /\ url.fragment = None
                THEN fallback_to_local_directory(cfg, pkg, package_path,
                                                 "No git revision found.")
                ELSE
                LET rev == IF f2.item # None THEN f2.item[1].value
                           ELSE url.fragment[1]
                IN  Returned(
                        Ok([tag |-> "Git",
                            url |-> set_fragment(set_query(url, None), None),
                            rev |-> rev,
                            ref |-> branch]),
                        <<>>)

\* Lines 164-181.
ResolvedSource_new(cfg, pkg, package_path) ==
    IF pkg.source # None /\ is_crates_io(pkg.source[1])
    THEN Returned(Ok([tag |-> "CratesIo", sha256 |-> None]), <<>>)
    ELSE IF pkg.source # None
    THEN git_or_local_directory(cfg, pkg, package_path, pkg.source[1])
    ELSE LET path == relative_directory(cfg, package_path)
         IN  IF ~IsOk(path) THEN Returned(path, <<>>)
             ELSE Returned(Ok([tag |-> "LocalDirectory", path |-> path.val]), <<>>)

----------------------------------------------------------------------------
(* ResolvedDependencies.                                                   *)

\* Lines 341-343: str::replace('-', "_").
normalize_package_name(package_name) ==
    [i \in 1..Len(package_name) |->
        IF package_name[i] = "-" THEN "_" ELSE package_name[i]]

\* Vec::sort_by(|p1, p2| p1.id.cmp(&p2.id)), line 328: a stable insertion
\* sort on the package identity.
RECURSIVE insert_by_id(_, _)
insert_by_id(sorted, p) ==
    IF sorted = <<>> THEN <<p>>
    ELSE IF p.id < Head(sorted).id THEN <<p>> \o sorted
    ELSE <<Head(sorted)>> \o insert_by_id(Tail(sorted), p)

RECURSIVE sort_by_id(_)
sort_by_id(ps) ==
    IF ps = <<>> THEN <<>>
    ELSE insert_by_id(sort_by_id(Front(ps)), Last(ps))

\* Line 328 left out: the packages stay in the order of the node's edges.
keep_edge_order(ps) == ps

\* Line 328.
sort_packages(ps) == sort_by_id(ps)

\* Lines 312-327 with filter_map in place of the collect into a Result: an
\* edge whose package is not in the index is dropped.
collect_packages_dropping(md, deps) ==
    LET known == SelectSeq(deps, LAMBDA d : d.pkg \in DOMAIN md.pkgs_by_id)
    IN  Ok([i \in 1..Len(known) |-> md.pkgs_by_id[known[i].pkg]])

\* Lines 312-327: the package record of every edge, or the error of the
\* first edge that has none.
collect_packages(md, deps) ==
    LET missing == SelectSeq(deps, LAMBDA d : d.pkg \notin DOMAIN md.pkgs_by_id)
    IN  IF missing # <<>>
        THEN ErrAbout("No matching package for dependency", Head(missing).pkg)
        ELSE Ok([i \in 1..Len(deps) |-> md.pkgs_by_id[deps[i].pkg]])

\* Lines 300-334.
ResolvedDependencies_new(md, pkg) ==
    IF pkg.id \notin DOMAIN md.nodes_by_id
    THEN ErrAbout("Could not find node", pkg.id)
    ELSE
    LET node == md.nodes_by_id[pkg.id]
        packages == collect_packages(md, node.deps)
    IN  IF ~IsOk(packages) THEN packages
        ELSE Ok([packages |-> sort_packages(packages.val),
                 dependencies |-> pkg.dependencies])

\* Lines 346-352: the HashMap from the normalized name to the declarations
\* with that name, in declaration order.
RECURSIVE group_by_name(_, _)
group_by_name(ds, names) ==
    IF ds = <<>> THEN names
    ELSE
    LET d == Head(ds)
        normalized_name == normalize_package_name(d.name)
    IN  group_by_name(
            Tail(ds),
            IF normalized_name \in DOMAIN names
            THEN [names EXCEPT ![normalized_name] = Append(@, d)]
            ELSE (normalized_name :> <<d>>) @@ names)

EmptyMap == [k \in {} |-> <<>>]

\* Lines 362-365 keeping only the first declaration's target.
first_target_only(ds) ==
    IF Head(ds).target # None THEN <<Head(ds).target[1]>> ELSE <<>>

\* Lines 362-365: the target expressions of the group, in declaration order.
collect_targets(ds) ==
    LET with_target == SelectSeq(ds, LAMBDA d : d.target # None)
    IN  [i \in 1..Len(with_target) |-> with_target[i].target[1]]

\* Lines 361-374: the record of one matched package.
resolved_dependency(d, ds) ==
    LET dependency == ds[1]
    IN  [name |-> dependency.name,
         rename |-> dependency.rename,
         package_id |-> d.id,
         targets |-> collect_targets(ds),
         optional |-> dependency.optional,
         uses_default_features |-> dependency.uses_default_features,
         features |-> dependency.features]

\* Lines 354-377 emitting one record per normalized name: a second package
\* with a name already matched is skipped.
RECURSIVE flat_map_packages_once(_, _)
flat_map_packages_once(packages, names) ==
    IF packages = <<>> THEN <<>>
    ELSE
    LET d == Head(packages)
        n == normalize_package_name(d.name)
    IN  IF n \in DOMAIN names
        THEN <<resolved_dependency(d, names[n])>>
             \o flat_map_packages_once(
                    Tail(packages), [k \in DOMAIN names \ {n} |-> names[k]])
        ELSE flat_map_packages_once(Tail(packages), names)

\* Lines 354-377: one record for every package whose normalized name has
\* declarations, in the order of the packages.
RECURSIVE flat_map_packages(_, _)
flat_map_packages(packages, names) ==
    IF packages = <<>> THEN <<>>
    ELSE
    LET d == Head(packages)
        normalized_package_name == normalize_package_name(d.name)
    IN  (IF normalized_package_name \in DOMAIN names
         THEN <<resolved_dependency(d, names[normalized_package_name])>>
         ELSE <<>>)
        \o flat_map_packages(Tail(packages), names)

\* Lines 336-378.  The closure `filter` is the set of dependency kinds it
\* accepts.
filtered_dependencies(self, filter) ==
    LET names == group_by_name(
                    SelectSeq(self.dependencies, LAMBDA d : d.kind \in filter),
                    EmptyMap)
    IN  flat_map_packages(self.packages, names)

\* Line 58: |d| d.kind == DependencyKind::Build.
BuildFilter == {"build"}

\* Lines 59-61: Normal or Unknown.
NormalFilter == {"normal", "unknown"}

----------------------------------------------------------------------------
(* CrateDerivation::resolve, lines 50-123.  The fields computed from       *)
(* package.targets (lib, build, proc_macro, has_bin) are left out: they    *)
(* cannot fail and nothing else reads them.                                *)

\* Lines 63-68: the parent of the manifest, canonicalized.
package_path_of(pkg) ==
    LET par == parent(pkg.manifest_path)
    IN  IF par = None THEN Panic("WUUT? No parent directory of manifest?")
        ELSE LET c == canonicalize(par[1])
             IN  IF IsOk(c) THEN c ELSE Panic("Cannot canonicalize package path")

resolve(cfg, md, pkg) ==
    LET resolved_dependencies == ResolvedDependencies_new(md, pkg)
    IN  IF ~IsOk(resolved_dependencies) THEN Returned(resolved_dependencies, <<>>)
        ELSE
        LET build_dependencies ==
                filtered_dependencies(resolved_dependencies.val, BuildFilter)
            dependencies ==
                filtered_dependencies(resolved_dependencies.val, NormalFilter)
            package_path == package_path_of(pkg)
        IN  IF ~IsOk(package_path) THEN Returned(package_path, <<>>)
            ELSE
            LET source == ResolvedSource_new(cfg, pkg, package_path.val)
            IN  IF ~IsOk(source.ret) THEN source
                ELSE Returned(
                        Ok([crate_name |-> pkg.name,
                            package_id |-> pkg.id,
                            source |-> source.ret.val,
                            resolved_default_features |->
                                md.nodes_by_id[pkg.id].features,
                            dependencies |-> dependencies,
                            build_dependencies |-> build_dependencies,
                            is_root_or_workspace_member |->
                                pkg.id \in md.root \cup md.workspace_members]),
                        source.warnings)

----------------------------------------------------------------------------
(* The inputs the behaviours draw from.                                    *)

\* Every existing directory, as a canonical absolute path.
Dirs == {MkPath(TRUE, c) : c \in {d \in SeqsUpTo(DirNames, MaxDepth) : Exists(d)}}

FileIn(dir, file) == MkPath(dir.abs, dir.comps \o <<file>>)

\* Values of config.output: a file in every existing directory, in a
\* directory that does not exist, relative to the working directory, and the
\* two paths that have no parent ("/" and "").
OutputPaths ==
    {FileIn(d, "Cargo.nix") : d \in Dirs}
    \cup {MkPath(TRUE, <<"missing", "Cargo.nix">>),
          MkPath(TRUE, <<"a", "missing", "Cargo.nix">>),
          MkPath(FALSE, <<"Cargo.nix">>),
          MkPath(FALSE, <<"b", "Cargo.nix">>),
          MkPath(FALSE, <<"..", "Cargo.nix">>),
          MkPath(FALSE, <<"missing", "Cargo.nix">>),
          MkPath(TRUE, <<>>),
          MkPath(FALSE, <<>>)}

FewOutputPaths ==
    {MkPath(TRUE, <<"a", "Cargo.nix">>),
     MkPath(FALSE, <<"Cargo.nix">>),
     MkPath(TRUE, <<"missing", "Cargo.nix">>)}

FewManifestPaths ==
    {MkPath(TRUE, <<"a", "Cargo.toml">>),
     MkPath(TRUE, <<"a", "b", "Cargo.toml">>),
     MkPath(TRUE, <<"b", "Cargo.toml">>)}

MissingManifestPath == MkPath(TRUE, <<"missing", "Cargo.toml">>)

\* name=value pairs of a query.
QueryNames == {"rev", "branch", "other"}

QueryValues == {<<>>, <<"abc123">>}

RenderPair(pr) == <<pr.name, "=">> \o pr.value

RECURSIVE RenderPairs(_)
RenderPairs(prs) ==
    IF prs = <<>> THEN <<>>
    ELSE IF Len(prs) = 1 THEN RenderPair(prs[1])
    ELSE RenderPair(prs[1]) \o <<"&">> \o RenderPairs(Tail(prs))

Queries ==
    {<<>>} \cup
    {<<"?">> \o RenderPairs(prs) :
        prs \in SeqsUpTo([name : QueryNames, value : QueryValues], MaxPairs)}

Fragments == {<<>>, <<"#">>, <<"#", "branchname">>}

GitUrl == "https://example.com/repo"

\* Provenance strings: the default registry, another registry, a path, git
\* URLs with every query and fragment, git URLs with a query written in the
\* less usual ways, and git+ followed by something that is no absolute URL.
ProvenanceStrings ==
    {CratesIoRepr,
     <<"registry+", "https://my.registry/index">>,
     <<"path+", "file:///a/b">>,
     <<"https://example.com/repo", "#", "deadbeef">>,
     <<"git+">>,
     <<"git+", "../local/repo">>,
     <<"git+", "../local/repo", "#", "deadbeef">>,
     <<"git+", GitUrl, "?", "other", "&", "branch", "=", "main", "&", "rev", "=", "abc123">>,
     <<"git+", GitUrl, "?", "&", "rev", "=", "a+b", "&">>,
     <<"git+", GitUrl, "?", "r%65v", "=", "abc123", "#", "branchname">>,
     <<"git+", GitUrl, "#", "deadbeef", "?", "rev", "=", "abc123">>}
    \cup {<<"git+", GitUrl>> \o q \o f : q \in Queries, f \in Fragments}

Sources == {None} \cup {Some(s) : s \in ProvenanceStrings}

FewSources ==
    {None,
     Some(CratesIoRepr),
     Some(<<"registry+", "https://my.registry/index">>),
     Some(<<"git+", "../local/repo">>),
     Some(<<"git+", GitUrl>>),
     Some(<<"git+", GitUrl, "?", "branch", "=", "main", "&", "rev", "=", "abc123">>),
     Some(<<"git+", GitUrl, "?", "branch", "=", "main", "#", "deadbeef">>)}

\* Crate names.
FooDashBar == <<"foo", "-", "bar">>

FooUnderBar == <<"foo", "_", "bar">>

Baz == <<"baz">>

\* A declared requirement (cargo_metadata::Dependency).  The fields other
\* than name, kind and target come in two variants.
Dep(name, kind, target, variant) ==
    [name |-> name, kind |-> kind, target |-> target,
     rename |-> IF variant = "plain" THEN None ELSE Some(<<"renamed">>),
     optional |-> variant # "plain",
     uses_default_features |-> variant = "plain",
     features |-> IF variant = "plain" THEN <<>> ELSE <<"serde">>]

DeclUniverse ==
    {Dep(FooDashBar, "normal", None, "plain"),
     Dep(FooUnderBar, "normal", Some("cfg(unix)"), "other"),
     Dep(FooDashBar, "unknown", Some("cfg(windows)"), "plain"),
     Dep(FooDashBar, "build", Some("cfg(unix)"), "other"),
     Dep(Baz, "build", None, "plain"),
     Dep(Baz, "dev", Some("cfg(windows)"), "other")}

FewDeclarationLists ==
    {<<>>,
     <<Dep(FooDashBar, "normal", None, "plain")>>,
     <<Dep(Baz, "build", None, "plain"),
       Dep(FooUnderBar, "normal", Some("cfg(unix)"), "other")>>}

\* The packages of the metadata besides the one being resolved: identity and
\* name.  Identities 1 and 4 are two versions of one crate; 3 has the same
\* name up to normalization.
PkgNames == (1 :> FooDashBar) @@ (2 :> Baz) @@ (3 :> FooUnderBar) @@ (4 :> FooDashBar)

PkgIds == DOMAIN PkgNames

RootId == 0

PkgRecord(id) == [id |-> id, name |-> PkgNames[id]]

PkgsById(ids) == [id \in ids |-> PkgRecord(id)]

\* node.deps: sequences of distinct identities, as cargo reports them.
EdgeLists ==
    {[i \in 1..Len(e) |-> [pkg |-> e[i]]] :
        e \in {x \in SeqsUpTo(PkgIds, MaxEdges) :
                 \A i, j \in 1..Len(x) : i # j => x[i] # x[j]}}

MkMetadata(hasNode, edges, ids) ==
    [nodes_by_id |-> IF hasNode
                     THEN (RootId :> [deps |-> edges, features |-> <<"default">>])
                     ELSE [k \in {} |-> <<>>],
     pkgs_by_id |-> PkgsById(ids),
     root |-> {RootId},
     workspace_members |-> {RootId}]

MkPackage(source, deps, manifest) ==
    [id |-> RootId, name |-> <<"root">>, source |-> source,
     dependencies |-> deps, manifest_path |-> manifest]

----------------------------------------------------------------------------
(* The behaviours: the inputs are fixed by Init, one call is made.         *)

Untouched ==
    /\ pc = "start"
    /\ result = NoResult
    /\ stderr = <<>>

\* relative_directory on every output path and every canonical package
\* directory.
InitPath ==
    /\ call = "relative_directory"
    /\ config \in [output : OutputPaths]
    /\ package \in {MkPackage(None, <<>>, FileIn(d, "Cargo.toml")) : d \in Dirs}
    /\ metadata = MkMetadata(TRUE, <<>>, PkgIds)
    /\ Untouched

\* ResolvedSource::new on every provenance.
InitSource ==
    /\ call = "ResolvedSource::new"
    /\ config \in [output : FewOutputPaths]
    /\ package \in {MkPackage(s, <<>>, m) : s \in Sources, m \in FewManifestPaths}
    /\ metadata = MkMetadata(TRUE, <<>>, PkgIds)
    /\ Untouched

\* ResolvedDependencies::new and the two calls of filtered_dependencies on
\* every list of declarations and every list of edges.
InitDeps ==
    /\ call = "filtered_dependencies"
    /\ config = [output |-> MkPath(TRUE, <<"a", "Cargo.nix">>)]
    /\ package \in {MkPackage(None, ds, MkPath(TRUE, <<"a", "Cargo.toml">>)) :
                        ds \in SeqsUpTo(DeclUniverse, MaxDeps)}
    /\ metadata \in {MkMetadata(TRUE, e, PkgIds) : e \in EdgeLists}
    /\ Untouched

\* CrateDerivation::resolve.
Init ==
    /\ call = "resolve"
    /\ config \in [output : FewOutputPaths]
    /\ package \in {MkPackage(s, ds, m) :
                        s \in FewSources, ds \in FewDeclarationLists,
                        m \in FewManifestPaths \cup {MissingManifestPath}}
    /\ metadata \in {MkMetadata(n, e, ids) :
                        n \in BOOLEAN, e \in EdgeLists,
                        ids \in {PkgIds, PkgIds \ {1}, PkgIds \ {2, 3}}}
    /\ Untouched

\* The canonical directory of the package, for the calls below resolve.
PackagePath == parent(package.manifest_path)[1]

CallRelativeDirectory ==
    /\ pc = "start"
    /\ call = "relative_directory"
    /\ result' = relative_directory(config, PackagePath)
    /\ pc' = "done"
    /\ UNCHANGED <<config, package, metadata, call, stderr>>

CallResolvedSourceNew ==
    /\ pc = "start"
    /\ call = "ResolvedSource::new"
    /\ LET r == ResolvedSource_new(config, package, PackagePath)
       IN  /\ result' = r.ret
           /\ stderr' = stderr \o r.warnings
    /\ pc' = "done"
    /\ UNCHANGED <<config, package, metadata, call>>

CallFilteredDependencies ==
    /\ pc = "start"
    /\ call = "filtered_dependencies"
    /\ LET rd == ResolvedDependencies_new(metadata, package)
       IN  result' =
             IF ~IsOk(rd) THEN rd
             ELSE Ok([build_dependencies |-> filtered_dependencies(rd.val, BuildFilter),
                      dependencies |-> filtered_dependencies(rd.val, NormalFilter)])
    /\ pc' = "done"
    /\ UNCHANGED <<config, package, metadata, call, stderr>>

CallResolve ==
    /\ pc = "start"
    /\ call = "resolve"
    /\ LET r == resolve(config, metadata, package)
       IN  /\ result' = r.ret
           /\ stderr' = stderr \o r.warnings
    /\ pc' = "done"
    /\ UNCHANGED <<config, package, metadata, call>>

NextPath == CallRelativeDirectory

NextSource == CallResolvedSourceNew

NextDeps == CallFilteredDependencies

Next == CallResolve

SpecPath == InitPath /\ [][NextPath]_vars

SpecSource == InitSource /\ [][NextSource]_vars

SpecDeps == InitDeps /\ [][NextDeps]_vars

Spec == Init /\ [][Next]_vars

----------------------------------------------------------------------------
(* What the properties below speak about.                                  *)

Returned_from(c) == pc = "done" /\ call = c

\* The directory of config.output exists: its canonicalization succeeds.
OutputDirCanonical ==
    LET par == parent(config.output)
    IN  IF par = None THEN Err("no parent")
        ELSE canonicalize(IF par[1].abs THEN par[1]
                          ELSE join(MkPath(FALSE, <<".">>), par[1]))

OutputDirCanonicalizable == IsOk(OutputDirCanonical)

OutputDirMissing == parent(config.output) # None /\ ~OutputDirCanonicalizable

HasGitPrefix ==
    /\ package.source # None
    /\ Len(package.source[1]) >= 1
    /\ package.source[1][1] = "git+"

\* The URL after "git+", parsed.
GitUrlParsed == Url_parse(Tail(package.source[1]))

HasGitUrlOf == HasGitPrefix /\ IsOk(GitUrlParsed)

\* The values of the query parameters named rev, in the order of the query.
RevParameters ==
    SelectSeq(query_pairs(GitUrlParsed.val), LAMBDA pr : pr.name = <<"rev">>)

ReturnedGit == IsOk(result) /\ result.val.tag = "Git"

----------------------------------------------------------------------------
(* ResolvedSource: C1, C2, C3, C4 (under SpecSource).                      *)

\* C1: for a provenance 'git+<URL>' whose query has a rev parameter,
\* ResolvedSource::new returns Git with rev equal to the value of that
\* parameter, with or without a fragment and wherever the other parameters
\* stand; the fragment is the rev only when there is no rev parameter.
C1_RevQueryParameterWins ==
    (Returned_from("ResolvedSource::new") /\ HasGitUrlOf /\ RevParameters # <<>>)
        => (ReturnedGit /\ result.val.rev = RevParameters[1].value)

\* C2: every Git value returned by ResolvedSource::new has a non-empty rev.
C2_GitRevNonEmpty ==
    (Returned_from("ResolvedSource::new") /\ ReturnedGit)
        => result.val.rev # <<>>

\* C3: every Git value returned by ResolvedSource::new carries the parsed URL
\* without its query and without its fragment: neither field is set, and the
\* URL's text holds no "?" and no "#".
C3_GitUrlStripped ==
    (Returned_from("ResolvedSource::new") /\ ReturnedGit)
        => /\ HasGitUrlOf
           /\ result.val.url.query = None
           /\ result.val.url.fragment = None
           /\ result.val.url.path = GitUrlParsed.val.path
           /\ "?" \notin Range(Url_as_str(result.val.url))
           /\ "#" \notin Range(Url_as_str(result.val.url))

\* C3's case: a Git value from a provenance with a query (holding a branch
\* and the rev) and a fragment.
C3_Witness ==
    /\ Returned_from("ResolvedSource::new")
    /\ ReturnedGit
    /\ result.val.ref # None
    /\ result.val.rev = <<"abc123">>
    /\ "?" \in Range(package.source[1])
    /\ "#" \in Range(package.source[1])

\* C4: with a canonicalizable output directory, a provenance that is present
\* and not the default registry never makes ResolvedSource::new fail; when no
\* Git value comes out, it is Ok(LocalDirectory) with exactly one warning.
C4_FallbackNeverFails ==
    (/\ Returned_from("ResolvedSource::new")
     /\ OutputDirCanonicalizable
     /\ package.source # None
     /\ ~is_crates_io(package.source[1]))
        => /\ IsOk(result)
           /\ result.val.tag \in {"Git", "LocalDirectory"}
           /\ result.val.tag = "LocalDirectory" => Len(stderr) = 1

----------------------------------------------------------------------------
(* relative_directory: C7 (under SpecPath).                                *)

\* Length of the longest common prefix of two sequences.
CommonPrefix(p, o) ==
    CHOOSE k \in 0..Len(p) :
        /\ k <= Len(o)
        /\ SubSeq(p, 1, k) = SubSeq(o, 1, k)
        /\ (k < Len(p) /\ k < Len(o)) => p[k + 1] # o[k + 1]

\* The relative path from directory o to directory p: up out of what o has
\* beyond the common prefix, then down into what p has beyond it.
RelativeFrom(o, p) ==
    LET k == CommonPrefix(p, o)
    IN  [i \in 1..(Len(o) - k) |-> ".."] \o SubSeq(p, k + 1, Len(p))

\* C7: for a canonical package directory P and a canonical output directory
\* O, relative_directory returns "./." when P = O, "../." when the relative
\* path from O to P is "..", the relative path itself when it begins with
\* ".." and is longer, and "./" followed by the relative path otherwise; so
\* the result begins with "." or ".." and is never a bare "..".  It returns a
\* path exactly when the output directory can be canonicalized.
C7_RelativeDirectory ==
    Returned_from("relative_directory") =>
        /\ IsOk(result) <=> OutputDirCanonicalizable
        /\ IsOk(result) =>
            LET P == PackagePath.comps
                O == OutputDirCanonical.val.comps
                rel == RelativeFrom(O, P)
                got == result.val.comps
            IN  /\ ~result.val.abs
                /\ P = O => got = <<".", ".">>
                /\ (P # O /\ rel = <<"..">>) => got = <<"..", ".">>
                /\ (P # O /\ Len(rel) > 1 /\ rel[1] = "..") => got = rel
                /\ (P # O /\ rel[1] # "..") => got = <<".">> \o rel
                /\ got[1] \in {".", ".."}
                /\ got # <<"..">>

\* C7's case: the package directory is the parent of the output directory.
C7_Witness ==
    /\ Returned_from("relative_directory")
    /\ IsOk(result)
    /\ PackagePath.comps = <<"a">>
    /\ OutputDirCanonical.val.comps = <<"a", "b">>
    /\ result.val.comps = <<"..", ".">>

----------------------------------------------------------------------------
(* The dependency matcher: C5, C6, C10 (under SpecDeps).                   *)

\* Two names are the same once every "-" is written "_".
SameNormalized(a, b) ==
    /\ Len(a) = Len(b)
    /\ \A i \in 1..Len(a) : a[i] = b[i] \/ {a[i], b[i]} \subseteq {"-", "_"}

Edges == metadata.nodes_by_id[RootId].deps

EdgeTargets == {Edges[i].pkg : i \in 1..Len(Edges)}

\* The declarations that pass the kind predicate, as declared.
Surviving(filter) ==
    SelectSeq(package.dependencies, LAMBDA d : d.kind \in filter)

\* The edge targets whose name matches a surviving declaration.
MatchedTargets(filter) ==
    {t \in EdgeTargets :
        \E i \in 1..Len(Surviving(filter)) :
            SameNormalized(PkgNames[t], Surviving(filter)[i].name)}

\* The elements of a set of identities in ascending order.
Ascending(S) ==
    CHOOSE s \in [1..Cardinality(S) -> S] :
        \A i, j \in 1..Cardinality(S) : i < j => s[i] < s[j]

Identities(list) == [i \in 1..Len(list) |-> list[i].package_id]

\* The surviving declarations whose name matches the package's, as declared.
GroupOf(filter, id) ==
    SelectSeq(Surviving(filter), LAMBDA d : SameNormalized(d.name, PkgNames[id]))

\* The target expressions of a group, one after the other (None adds
\* nothing, Some(t) adds t).
RECURSIVE TargetsOf(_)
TargetsOf(group) ==
    IF group = <<>> THEN <<>> ELSE Head(group).target \o TargetsOf(Tail(group))

\* The two lists resolve asks for, each with its predicate.
BothLists ==
    {[list |-> result.val.dependencies, filter |-> NormalFilter],
     [list |-> result.val.build_dependencies, filter |-> BuildFilter]}

\* C5: the package identities of a list returned by filtered_dependencies
\* are the edge targets in ascending order of identity, restricted to those
\* whose name matches, up to "-" and "_", a declaration that passes the
\* predicate.  The right-hand side reads the edges and the declarations as
\* sets, so no permutation of either changes it.
C5_IdentitiesSortedAndMatched ==
    Returned_from("filtered_dependencies") =>
        /\ IsOk(result)
        /\ \A l \in BothLists :
              Identities(l.list) = Ascending(MatchedTargets(l.filter))

\* C5's case: edges out of order, a declared foo_bar matching the package
\* foo-bar, an edge target left out, two records in the list.
C5_Witness ==
    /\ Returned_from("filtered_dependencies")
    /\ Edges = <<[pkg |-> 4], [pkg |-> 2], [pkg |-> 1]>>
    /\ package.dependencies # <<>>
    /\ Identities(result.val.dependencies) = <<1, 4>>
    /\ \A i \in 1..Len(package.dependencies) :
          package.dependencies[i].name = FooUnderBar

\* C6: each matched target package has exactly one record; name, rename,
\* optional, uses_default_features and features are those of the first
\* surviving declaration with the matching normalized name; targets is the
\* concatenation, in declaration order, of the group's target expressions,
\* repeated ones kept; package_id is the edge target's identity.
C6_FirstDeclarationAndAllTargets ==
    Returned_from("filtered_dependencies") =>
        \A l \in BothLists :
            /\ \A t \in MatchedTargets(l.filter) :
                  Cardinality({i \in 1..Len(l.list) : l.list[i].package_id = t}) = 1
            /\ \A i \in 1..Len(l.list) :
                  LET r == l.list[i]
                      group == GroupOf(l.filter, r.package_id)
                  IN  /\ r.package_id \in EdgeTargets
                      /\ group # <<>>
                      /\ r.name = group[1].name
                      /\ r.rename = group[1].rename
                      /\ r.optional = group[1].optional
                      /\ r.uses_default_features = group[1].uses_default_features
                      /\ r.features = group[1].features
                      /\ r.targets = TargetsOf(group)

\* C6's case: three declarations of one normalized name, the first differing
\* from the others in every field, two of them with the same expression.
C6_Witness ==
    /\ Returned_from("filtered_dependencies")
    /\ Len(package.dependencies) = 3
    /\ Len(result.val.dependencies) = 1
    /\ result.val.dependencies[1].name = FooUnderBar
    /\ result.val.dependencies[1].optional
    /\ result.val.dependencies[1].targets = <<"cfg(unix)", "cfg(windows)", "cfg(unix)">>
    /\ package.dependencies[2].name = FooDashBar
    /\ ~package.dependencies[2].optional

\* C10: a list has at most as many records as the node has edges; for every
\* surviving declaration's name n, as many records as edge targets have a
\* name that normalizes like n; two records of one normalized name agree in
\* every field but package_id, where they differ.
C10_OneRecordPerEdgeTarget ==
    Returned_from("filtered_dependencies") =>
        \A l \in BothLists :
            /\ Len(l.list) <= Len(Edges)
            /\ \A k \in 1..Len(Surviving(l.filter)) :
                  LET n == Surviving(l.filter)[k].name
                  IN  Cardinality({i \in 1..Len(l.list) :
                            SameNormalized(PkgNames[l.list[i].package_id], n)})
                      = Cardinality({e \in 1..Len(Edges) :
                            SameNormalized(PkgNames[Edges[e].pkg], n)})
            /\ \A i, j \in 1..Len(l.list) :
                  (i # j /\ SameNormalized(PkgNames[l.list[i].package_id],
                                           PkgNames[l.list[j].package_id]))
                    => /\ l.list[i].package_id # l.list[j].package_id
                       /\ [l.list[i] EXCEPT !.package_id = 0]
                            = [l.list[j] EXCEPT !.package_id = 0]

\* C10's case: two versions of one crate and a third package of the same
\* normalized name are edge targets, and all three have a record.
C10_Witness ==
    /\ Returned_from("filtered_dependencies")
    /\ Identities(result.val.dependencies) = <<1, 3, 4>>
    /\ PkgNames[1] = PkgNames[4]
    /\ result.val.build_dependencies = <<>>
    /\ Len(package.dependencies) = 1

----------------------------------------------------------------------------
(* CrateDerivation::resolve: C8, C9 (under Spec).                          *)

HasNode == package.id \in DOMAIN metadata.nodes_by_id

\* The identities the node's edges name that have no package record.
MissingTargets ==
    {metadata.nodes_by_id[package.id].deps[i].pkg :
        i \in 1..Len(metadata.nodes_by_id[package.id].deps)}
    \ DOMAIN metadata.pkgs_by_id

LookupsSucceed == HasNode /\ MissingTargets = {}

LookupErrors == {"Could not find node", "No matching package for dependency"}

IsLookupError(r) == r.kind = "Err" /\ r.err.msg \in LookupErrors

\* The directory of the package's manifest exists.
PackageDirCanonicalizable ==
    /\ parent(package.manifest_path) # None
    /\ IsOk(canonicalize(parent(package.manifest_path)[1]))

\* C8: resolve returns an error and no record when the index has no node for
\* the package, and when an edge of the node names an identity with no
\* package record (the edge is not dropped); when both lookups succeed for
\* every edge, no lookup error is returned.
C8_LookupErrorsPropagate ==
    Returned_from("resolve") =>
        /\ ~HasNode =>
              /\ result.kind = "Err"
              /\ result.err = [msg |-> "Could not find node", pkg |-> package.id]
        /\ (HasNode /\ MissingTargets # {}) =>
              /\ result.kind = "Err"
              /\ result.err.msg = "No matching package for dependency"
              /\ result.err.pkg \in MissingTargets
        /\ LookupsSucceed => ~IsLookupError(result)

\* C8's case: the node has three edges, one to an identity without a package
\* record, everything else about the package is in order, and resolve
\* returned the error about that identity.
C8_Witness ==
    /\ Returned_from("resolve")
    /\ HasNode
    /\ MissingTargets = {1}
    /\ Len(metadata.nodes_by_id[package.id].deps) = 3
    /\ PackageDirCanonicalizable
    /\ OutputDirCanonicalizable
    /\ package.source = Some(CratesIoRepr)
    /\ result = ErrAbout("No matching package for dependency", 1)

\* C9 as stated: whenever the directory of the output file cannot be
\* canonicalized, resolve fails and returns no CrateDerivation, whatever the
\* package's provenance.
C9_OutputDirFatalForEveryPackage ==
    (Returned_from("resolve") /\ OutputDirMissing) => ~IsOk(result)

\* C9 amended: when the directory of the output file cannot be
\* canonicalized, resolve fails for every package without provenance and
\* never returns a record with a LocalDirectory source; a package of the
\* default registry, and a git package whose URL parses and has a fragment,
\* are classified without the output directory and resolve to CratesIo and
\* Git when the lookups and the package directory are in order; a provenance
\* without the git+ prefix, or with no URL after it, makes resolve fail.
C9_OutputDirFatalForLocalDirectory ==
    (Returned_from("resolve") /\ OutputDirMissing) =>
        /\ package.source = None => ~IsOk(result)
        /\ IsOk(result) => result.val.source.tag \in {"CratesIo", "Git"}
        /\ (LookupsSucceed /\ PackageDirCanonicalizable) =>
              /\ (package.source # None /\ is_crates_io(package.source[1]))
                    => (IsOk(result) /\ result.val.source.tag = "CratesIo")
              /\ (HasGitUrlOf /\ GitUrlParsed.val.fragment # None)
                    => (IsOk(result) /\ result.val.source.tag = "Git")
              /\ (package.source # None
                  /\ ~is_crates_io(package.source[1])
                  /\ ~HasGitUrlOf)
                    => result.kind = "Err"

\* C9's case: no provenance, lookups and package directory in order, the
\* output directory missing, and resolve returned the canonicalization error.
C9_Witness ==
    /\ Returned_from("resolve")
    /\ OutputDirMissing
    /\ package.source = None
    /\ LookupsSucceed
    /\ PackageDirCanonicalizable
    /\ result = Err("could not canonicalize output file directory")

=============================================================================
